---- MODULE Spec2Model ----
(***************************************************************************)
(* Model of the Magento download mirror: downloader.py and its older       *)
(* near-duplicate sync.py.  Strings that the code inspects character by    *)
(* character (file names, category names, paths, version keys) are         *)
(* sequences of one-character strings; strings that are only compared for  *)
(* equality (md5 hex digests, exception names) are TLA+ strings.           *)
(***************************************************************************)
EXTENDS Integers, Sequences, FiniteSets, TLC

VARIABLES
    script,      \* which entry point runs: "downloader" or "sync"
    all_files,   \* the catalog (blob): sequence of [category, files] items
    fs,          \* regular files on disk: path -> content (bytes)
    dirs,        \* directories on disk
    run,         \* number of the current run of the script
    pc,          \* "category" | "file" | "done" | "raised" | "patches" | "indexed"
    exc,         \* the exception that ended the run, "none" otherwise
    ci,          \* position of the outer loop in all_files.items()
    files,       \* the flattened list of the current category
    fi,          \* position of the inner loop in files
    category_path, \* directory of the current category
    out,         \* diagnostics printed during this run
    calls,       \* download_file invocations of this run, in order
    fs0,         \* the files as they were when this run started
    last,        \* what the last loop iteration did
    healedPrev,  \* entries repaired by a matching fetch in the previous run
    healedCur,   \* entries repaired by a matching fetch in this run
    good,        \* entries repaired by a matching fetch, target not rewritten since
    cuts,        \* target paths that a transfer cut short has written to
    v2p,         \* calc_req_patches: version key -> set of patch file names
    printed      \* calc_req_patches: the version keys in the order printed

vars == <<script, all_files, fs, dirs, run, pc, exc, ci, files, fi,
          category_path, out, calls, fs0, last, healedPrev, healedCur, good,
          cuts, v2p, printed>>

(***************************** bounds **************************************)
MaxCats == 2        \* top-level keys in a catalog
MaxEntries == 2     \* entries in a catalog, over all its categories
MaxRuns == 2        \* runs of the script over the same catalog
MaxPatchFiles == 2  \* entries in a catalog given to calc_req_patches

(***************************** strings *************************************)
ee_full  == <<"e","e","-","f","u","l","l">>
ce_full  == <<"c","e","-","f","u","l","l">>
ee_patch == <<"e","e","-","p","a","t","c","h">>
ce_patch == <<"c","e","-","p","a","t","c","h">>
other    == <<"o","t","h","e","r">>
legacy   == <<"l","e","g","a","c","y">>
dash_patch == <<"-","p","a","t","c","h">>
zip == <<"z","i","p">>
bz2 == <<"b","z","2">>

\* CATEGORIES of downloader.py ('other' is left out on purpose)
CATEGORIES == {ee_full, ce_full, ee_patch, ce_patch}
\* the tuple of the assert in sync.py
SYNC_CATEGORIES == {other, ee_full, ce_full, ee_patch, ce_patch}
\* dirname(realpath(__file__)) + '/downloaded'; the script directory is "."
DOWNLOAD_PATH == <<".","/","d","o","w","n","l","o","a","d","e","d">>

\* c in s
In(c, s) == \E i \in 1..Len(s) : s[i] = c

\* s.rpartition(sep)[2]: what follows the last sep, the whole of s without one
RPartition2(s, sep) ==
    LET idx == {i \in 1..Len(s) : s[i] = sep}
    IN  IF idx = {} THEN s
        ELSE LET k == CHOOSE i \in idx : \A j \in idx : j <= i
             IN  SubSeq(s, k + 1, Len(s))

\* s.rpartition(sep)[0]: what precedes the last sep, empty without one
RPartition0(s, sep) ==
    LET idx == {i \in 1..Len(s) : s[i] = sep}
    IN  IF idx = {} THEN <<>>
        ELSE LET k == CHOOSE i \in idx : \A j \in idx : j <= i
             IN  SubSeq(s, 1, k - 1)

\* s.endswith(suffix)
EndsWith(s, suffix) ==
    /\ Len(s) >= Len(suffix)
    /\ SubSeq(s, Len(s) - Len(suffix) + 1, Len(s)) = suffix

(***************************** contents and digests ************************)
\* what Content gives for a path with no file: a value that is no content
Absent == <<"absent">>
Empty  == <<>>
X == <<"x">>
Y == <<"y">>

\* hashlib.md5(data).hexdigest() on the contents of the model
MD5(data) ==
    CASE data = Empty -> "d41d8cd98f00b204e9800998ecf8427e"
      [] data = X     -> "9dd4e461268c8034f5c8564e155c67a6"
      [] data = Y     -> "415290769594460e2e485922904f345d"

(***************************** the catalog *********************************)
a     == <<"a">>
a_zip == <<"a",".","z","i","p">>
s_a   == <<"s","/","a">>

\* Top-level keys of the catalogs of the model: two categories of CATEGORIES,
\* the feed's fifth category and a key the feed does not know.
Keys == {ce_full, ee_patch, other, legacy}

\* Catalog entries.  An entry is a record; a key the JSON object does not
\* have is a field the record does not have.
Entries ==
    {[file_name |-> a, md5 |-> m] : m \in {"", MD5(X), MD5(Y)}}
    \cup {[file_name |-> a]}
    \cup {[file_name |-> n, md5 |-> MD5(X)] : n \in {bz2, a_zip}}
    \cup {[file_name |-> s_a]}

Injective(s) == \A i, j \in 1..Len(s) : s[i] = s[j] => i = j
NonDecreasing(s) == \A i, j \in 1..Len(s) : i <= j => s[i] <= s[j]

\* the sequences of at most n elements of S
SeqsUpTo(S, n) == UNION {[1..m -> S] : m \in 0..n}
\* the keys of a JSON object, in the order of the document
KeySeqsOf(K) == {ks \in SeqsUpTo(K, MaxCats) : Injective(ks)}

\* The value of key number k: the entries of flat that place puts under k,
\* as a list, or as a mapping from a version to a list of one entry each.
FilesValue(flat, place, k, grouped) ==
    LET mine == SelectSeq([i \in 1..Len(flat) |-> <<flat[i], place[i]>>],
                          LAMBDA p : p[2] = k)
        items == [i \in 1..Len(mine) |-> mine[i][1]]
    IN  IF grouped
        THEN [type |-> "dict", values |-> [i \in 1..Len(items) |-> <<items[i]>>]]
        ELSE [type |-> "list", values |-> items]

\* the ways to put the entries of flat, in their order, under the keys ks
Places(ks, flat) == {p \in [1..Len(flat) -> 1..Len(ks)] : NonDecreasing(p)}

\* the catalog with keys ks that holds the entries of flat as place says
Catalog(ks, flat, place, grouped) ==
    [k \in 1..Len(ks) |->
        [category |-> ks[k], files |-> FilesValue(flat, place, k, grouped)]]

\* blob is a catalog with keys of K and at most n entries of E
IsCatalog(blob, K, E, n) ==
    \E ks \in KeySeqsOf(K), flat \in SeqsUpTo(E, n), grouped \in BOOLEAN :
      \E place \in Places(ks, flat) :
        blob = Catalog(ks, flat, place, grouped)

(***************************** sync_everything *****************************)
\* list(itertools.chain.from_iterable(files.values()))
RECURSIVE Chain(_)
Chain(lists) ==
    IF lists = <<>> THEN <<>> ELSE Head(lists) \o Chain(Tail(lists))

\* if isinstance(files, dict): files = list(chain.from_iterable(files.values()))
Flatten(value) ==
    IF value.type = "dict" THEN Chain(value.values) ELSE value.values

\* category_path: DOWNLOAD_PATH + '/' + category in downloader.py, the
\* category itself (relative to the working directory) in sync.py
CategoryPath(s, category) ==
    IF s = "downloader" THEN DOWNLOAD_PATH \o <<"/">> \o category ELSE category

\* target = category_path + '/' + file['file_name']
Target(cp, file_name) == cp \o <<"/">> \o file_name

\* downloader.py going into 'other' as sync.py does
Accepted_other(s) == SYNC_CATEGORIES

\* the categories a script goes into
Accepted(s) == IF s = "downloader" THEN CATEGORIES ELSE SYNC_CATEGORIES

\* the deep-path check left out
DeepPath_never(file_name) == FALSE

\* '/' in file['file_name']
DeepPath(file_name) == In("/", file_name)

\* file['file_name'].rpartition('.')[2] in ('zip', 'bz2')
ExcludedExt(file_name) == RPartition2(file_name, ".") \in {zip, bz2}

\* os.path.exists(path)
Exists(fsys, dset, path) == path \in DOMAIN fsys \/ path \in dset

Diag(msg, arg) == [msg |-> msg, arg |-> arg]

\* verify_md5sum with the comparison of the digests inverted
verify_md5sum_inverted(fsys, dset, path, want_md5) ==
    IF ~Exists(fsys, dset, path) THEN FALSE
    ELSE IF want_md5 = "" THEN TRUE
    ELSE MD5(fsys[path]) # want_md5

\* verify_md5sum(path, want_md5): the value returned
verify_md5sum(fsys, dset, path, want_md5) ==
    IF ~Exists(fsys, dset, path) THEN FALSE
    ELSE IF want_md5 = "" THEN TRUE
    ELSE MD5(fsys[path]) = want_md5

\* verify_md5sum(path, want_md5): what it prints
verify_prints(fsys, dset, path, want_md5) ==
    IF ~Exists(fsys, dset, path) THEN {Diag("file does not exist", path)}
    ELSE IF want_md5 = "" THEN {}
    ELSE IF MD5(fsys[path]) # want_md5
         THEN {Diag("exists but has different checksum", path)}
         ELSE {}

\* What the server answers to one GET: the status, whether the response has a
\* content-length header, the body, and how many bytes of the body arrive
\* before the connection ends (all of them unless the transfer is cut).
Bodies == {X, Y}
Responses ==
    {[status |-> 404, has_length |-> TRUE, body |-> X, received |-> 1]}
    \cup {[status |-> 200, has_length |-> FALSE, body |-> X, received |-> 1]}
    \cup {[status |-> 200, has_length |-> TRUE, body |-> b, received |-> n] :
            b \in Bodies, n \in 0..1}

\* open(path, 'wb') without the writes
Written_truncated(fsys, path, data) ==
    [p \in DOMAIN fsys \cup {path} |-> IF p = path THEN Empty ELSE fsys[p]]

\* fh.write of the bytes that arrived, after open(path, 'wb') truncated
Written(fsys, path, data) ==
    [p \in DOMAIN fsys \cup {path} |-> IF p = path THEN data ELSE fsys[p]]

\* download_file(filename, path): the files afterwards, and how the call
\* ends: it returns False or None, or an exception propagates.
download_file(fsys, dset, filename, path, resp) ==
    IF resp.status # 200
    THEN [fs |-> fsys, result |-> "False",
          prints |-> {Diag("Downloading", filename), Diag("Status code", filename)}]
    ELSE IF ~resp.has_length
    THEN \* int(None)
         [fs |-> fsys, result |-> "TypeError",
          prints |-> {Diag("Downloading", filename)}]
    ELSE IF RPartition0(path, "/") \notin dset
    THEN \* open() of a path whose directory does not exist
         [fs |-> fsys, result |-> "FileNotFoundError",
          prints |-> {Diag("Downloading", filename)}]
    ELSE IF resp.received < Len(resp.body)
    THEN \* iter_content() raises once the connection is lost
         [fs |-> Written(fsys, path, SubSeq(resp.body, 1, resp.received)),
          result |-> "ConnectionError",
          prints |-> {Diag("Downloading", filename)}]
    ELSE [fs |-> Written(fsys, path, resp.body), result |-> "None",
          prints |-> {Diag("Downloading", filename), Diag("Saved", path)}]

\* One iteration of "for file in files": what the body of the loop does to
\* the files, what it calls and prints, and the exception that leaves it.
Iteration(s, fsys, dset, cp, file, resp) ==
    LET file_name == file.file_name
        target == Target(cp, file_name)
        skip == [fs |-> fsys, target |-> target, verify_called |-> FALSE,
                 verified |-> FALSE, fetched |-> FALSE, result |-> "n/a",
                 exc |-> "none", prints |-> {}]
    IN  IF DeepPath(file_name)
        THEN [skip EXCEPT !.prints = {Diag("deep path, skipping", file_name)}]
        ELSE IF ExcludedExt(file_name)
        THEN skip
        ELSE IF "md5" \notin DOMAIN file
        THEN \* file['md5']
             [skip EXCEPT !.exc = "KeyError"]
        ELSE IF verify_md5sum(fsys, dset, target, file.md5)
        THEN [skip EXCEPT !.verify_called = TRUE, !.verified = TRUE,
                          !.prints = verify_prints(fsys, dset, target, file.md5)
                                     \cup {Diag("target", target)}]
        ELSE LET dl == download_file(fsys, dset, file_name, target, resp)
                 returned == dl.result \in {"False", "None"}
             IN  [fs |-> dl.fs, target |-> target, verify_called |-> TRUE,
                  verified |-> FALSE, fetched |-> TRUE, result |-> dl.result,
                  exc |-> IF returned THEN "none" ELSE dl.result,
                  prints |-> verify_prints(fsys, dset, target, file.md5)
                             \cup (IF s = "downloader"
                                   THEN {Diag("md5 mismatch, redownloading", file_name)}
                                   ELSE {})
                             \cup dl.prints
                             \cup (IF returned THEN {Diag("target", target)} ELSE {})]

NoLast ==
    [kind |-> "none", ci |-> 0, fi |-> 0, target |-> <<>>, pre |-> Absent,
     verify_called |-> FALSE, verified |-> FALSE, fetched |-> FALSE,
     result |-> "n/a", body |-> Empty, changed |-> FALSE,
     was_good |-> FALSE]

Content(fsys, path) == IF path \in DOMAIN fsys THEN fsys[path] ELSE Absent

\* for file in files: ... (lines 115-130 of downloader.py)
ProcessFile ==
    /\ pc = "file"
    /\ fi <= Len(files)
    /\ \E resp \in Responses :
       \E it \in {Iteration(script, fs, dirs, category_path, files[fi], resp)} :
         LET file == files[fi]
             id == [ci |-> ci, fi |-> fi, path |-> it.target]
             wrote == it.result \in {"None", "ConnectionError"}
             matching == /\ it.result = "None"
                         /\ MD5(resp.body) = file.md5
         IN  /\ fs' = it.fs
             /\ out' = out \cup it.prints
             /\ calls' = IF it.fetched THEN Append(calls, id) ELSE calls
             /\ last' = [kind |-> "file", ci |-> ci, fi |-> fi,
                         target |-> it.target, pre |-> Content(fs, it.target),
                         verify_called |-> it.verify_called,
                         verified |-> it.verified, fetched |-> it.fetched,
                         result |-> it.result,
                         body |-> IF it.result = "None" THEN resp.body ELSE Empty,
                         changed |-> it.fs # fs,
                         was_good |-> id \in good]
             /\ healedCur' = IF matching /\ it.target \in DOMAIN fs
                             THEN healedCur \cup {id} ELSE healedCur
             /\ good' = IF wrote
                        THEN {g \in good : g.path # it.target}
                             \cup (IF matching THEN {id} ELSE {})
                        ELSE good
             /\ cuts' = IF it.result = "ConnectionError"
                        THEN cuts \cup {it.target} ELSE cuts
             /\ IF it.exc = "none"
                THEN /\ fi' = fi + 1
                     /\ UNCHANGED <<pc, exc>>
                ELSE /\ pc' = "raised"
                     /\ exc' = it.exc
                     /\ UNCHANGED fi
    /\ UNCHANGED <<script, all_files, dirs, run, ci, files, category_path,
                   fs0, healedPrev, v2p, printed>>

\* for category, files in all_files.items(): the category check, the mkdir
\* and the flattening (lines 101-113 of downloader.py, 97-105 of sync.py)
EnterCategory ==
    /\ pc = "category"
    /\ ci <= Len(all_files)
    /\ LET category == all_files[ci].category
           cp == CategoryPath(script, category)
       IN  IF category \in Accepted(script)
           THEN /\ category_path' = cp
                /\ dirs' = IF Exists(fs, dirs, cp) THEN dirs ELSE dirs \cup {cp}
                /\ files' = Flatten(all_files[ci].files)
                /\ fi' = 1
                /\ pc' = "file"
                /\ last' = [NoLast EXCEPT !.kind = "enter", !.ci = ci]
                /\ UNCHANGED <<ci, out, exc>>
           ELSE IF script = "downloader"
           THEN \* print('unknown category: {}, skipping...'); continue
                /\ out' = out \cup {Diag("unknown category, skipping", category)}
                /\ ci' = ci + 1
                /\ last' = [NoLast EXCEPT !.kind = "skip", !.ci = ci]
                /\ UNCHANGED <<category_path, dirs, files, fi, pc, exc>>
           ELSE \* assert category in (...), 'unknown category: {}'
                /\ pc' = "raised"
                /\ exc' = "AssertionError"
                /\ last' = [NoLast EXCEPT !.kind = "assert", !.ci = ci]
                /\ UNCHANGED <<category_path, dirs, files, fi, ci, out>>
    /\ UNCHANGED <<script, all_files, fs, run, calls, fs0, healedPrev,
                   healedCur, good, cuts, v2p, printed>>

\* print(category_path, len(files)), and on to the next category
EndCategory ==
    /\ pc = "file"
    /\ fi > Len(files)
    /\ out' = out \cup {Diag("count", category_path)}
    /\ ci' = ci + 1
    /\ pc' = "category"
    /\ last' = [NoLast EXCEPT !.kind = "end", !.ci = ci]
    /\ UNCHANGED <<script, all_files, fs, dirs, run, exc, files, fi,
                   category_path, calls, fs0, healedPrev, healedCur, good,
                   cuts, v2p, printed>>

\* sync_everything returns: the loop over all_files.items() is exhausted
Finish ==
    /\ pc = "category"
    /\ ci > Len(all_files)
    /\ pc' = "done"
    /\ last' = [NoLast EXCEPT !.kind = "finish"]
    /\ UNCHANGED <<script, all_files, fs, dirs, run, exc, ci, files, fi,
                   category_path, out, calls, fs0, healedPrev, healedCur,
                   good, cuts, v2p, printed>>

\* json.dumps(blob, indent=2, sort_keys=True): the text of the snapshot,
\* which nothing reads back
json_dumps(blob) == <<"{","}">>
info_json == <<"i","n","f","o",".","j","s","o","n">>

\* with open('info.json', 'w') as fh: fh.write(json.dumps(...)), which only
\* main() of downloader.py does
Snapshot(s, fsys, blob) ==
    IF s = "downloader" THEN Written(fsys, info_json, json_dumps(blob)) ELSE fsys

\* The script is started again: main() up to the call of sync_everything,
\* the feed answering with the same catalog.
StartRun ==
    /\ pc \in {"done", "raised"}
    /\ run < MaxRuns
    /\ run' = run + 1
    /\ pc' = "category"
    /\ exc' = "none"
    /\ ci' = 1
    /\ files' = <<>>
    /\ fi' = 1
    /\ category_path' = <<>>
    /\ out' = {}
    /\ calls' = <<>>
    /\ fs' = Snapshot(script, fs, all_files)
    /\ fs0' = fs'
    /\ last' = [NoLast EXCEPT !.kind = "start"]
    /\ healedPrev' = healedCur
    /\ healedCur' = {}
    /\ UNCHANGED <<script, all_files, dirs, good, cuts, v2p, printed>>

\* The files there may be before the first run: none, or the file a of
\* ce-full with one of two contents.
InitialFiles(s) ==
    LET t == Target(CategoryPath(s, ce_full), a)
    IN  {<<>>} \cup {[p \in {t} |-> c] : c \in {X, Y}}

\* main() has made DOWNLOAD_PATH; the directories of the files there are exist
InitialDirs(s, fsys) ==
    (IF s = "downloader" THEN {DOWNLOAD_PATH} ELSE {<<>>})
    \cup {RPartition0(p, "/") : p \in DOMAIN fsys}

\* The first run has come to the call of sync_everything(blob).
Init ==
    /\ script \in {"downloader", "sync"}
    /\ IsCatalog(all_files, Keys, Entries, MaxEntries)
    /\ \E f \in InitialFiles(script) : fs = Snapshot(script, f, all_files)
    /\ dirs = InitialDirs(script, fs)
    /\ run = 1
    /\ pc = "category"
    /\ exc = "none"
    /\ ci = 1
    /\ files = <<>>
    /\ fi = 1
    /\ category_path = <<>>
    /\ out = {}
    /\ calls = <<>>
    /\ fs0 = fs
    /\ last = NoLast
    /\ healedPrev = {}
    /\ healedCur = {}
    /\ good = {}
    /\ cuts = {}
    /\ v2p = <<>>
    /\ printed = <<>>

(***************************** calc_req_patches ****************************)
p1 == <<"p","1">>
p2 == <<"p","2">>
v19  == <<"1",".","9">>
v114 == <<"1",".","1","4">>
PatchNames == {p1, p2}
PatchVersions == {v19, v114}
PatchKeys == {ee_patch, ce_patch, ce_full}

\* Entries of the catalogs given to calc_req_patches: ee_versions and
\* ce_versions are lists of version strings, and either key may be missing.
PatchEntries ==
    {[file_name |-> n] : n \in PatchNames}
    \cup {[file_name |-> n, ee_versions |-> e] :
            n \in PatchNames, e \in {<<v114>>, <<v19, v114>>}}
    \cup {[file_name |-> n, ce_versions |-> <<v19>>] : n \in PatchNames}
    \cup {[file_name |-> n, ee_versions |-> e, ce_versions |-> <<v19>>] :
            n \in PatchNames, e \in {<<v114>>, <<v19, v114>>}}

\* file.get(key, ())
Get(file, key) == IF key \in DOMAIN file THEN file[key] ELSE <<>>

\* VersionKeys with the ce_versions labelled "EE " as well
VersionKeys_samelabel(file) ==
    LET ee == IF "ee_versions" \in DOMAIN file THEN file["ee_versions"] ELSE <<>>
        ce == IF "ce_versions" \in DOMAIN file THEN file["ce_versions"] ELSE <<>>
    IN  [i \in 1..Len(ee) |-> <<"E","E"," ">> \o ee[i]]
        \o [i \in 1..Len(ce) |-> <<"E","E"," ">> \o ce[i]]

\* ["EE {}".format(x) for x in ...] + ["CE {}".format(x) for x in ...]
VersionKeys(file) ==
    LET ee == Get(file, "ee_versions")
        ce == Get(file, "ce_versions")
    IN  [i \in 1..Len(ee) |-> <<"E","E"," ">> \o ee[i]]
        \o [i \in 1..Len(ce) |-> <<"C","E"," ">> \o ce[i]]

\* category.endswith('-patch')
IsPatchCategory(category) == EndsWith(category, dash_patch)

\* v2p[v].add(file_name); a defaultdict(set) makes the key on first use
AddPatch(m, v, file_name) ==
    [k \in DOMAIN m \cup {v} |->
        IF k = v THEN (IF v \in DOMAIN m THEN m[v] ELSE {}) \cup {file_name}
        ELSE m[k]]

\* for v in (ee + ce): v2p[v].add(file['file_name'])
RECURSIVE AddVersions(_, _, _)
AddVersions(m, vs, file_name) ==
    IF vs = <<>> THEN m
    ELSE AddVersions(AddPatch(m, Head(vs), file_name), Tail(vs), file_name)

\* for file in files: ...
RECURSIVE IndexFiles(_, _)
IndexFiles(m, fl) ==
    IF fl = <<>> THEN m
    ELSE IndexFiles(AddVersions(m, VersionKeys(Head(fl)), Head(fl).file_name),
                    Tail(fl))

\* for category, files in all_files.items(): ...
RECURSIVE IndexCategories(_, _)
IndexCategories(m, items) ==
    IF items = <<>> THEN m
    ELSE IF ~IsPatchCategory(Head(items).category)
    THEN IndexCategories(m, Tail(items))
    ELSE IndexCategories(IndexFiles(m, Flatten(Head(items).files)), Tail(items))

\* ord(c) of the characters of a version key
Ord(c) ==
    CASE c = " " -> 32 [] c = "." -> 46 [] c = "0" -> 48 [] c = "1" -> 49
      [] c = "2" -> 50 [] c = "3" -> 51 [] c = "4" -> 52 [] c = "5" -> 53
      [] c = "6" -> 54 [] c = "7" -> 55 [] c = "8" -> 56 [] c = "9" -> 57
      [] c = "C" -> 67 [] c = "E" -> 69

\* s < t on Python strings: at the first position where they differ, or s a
\* proper prefix of t
RECURSIVE StrLess(_, _)
StrLess(s, t) ==
    IF t = <<>> THEN FALSE
    ELSE IF s = <<>> THEN TRUE
    ELSE IF Head(s) # Head(t) THEN Ord(Head(s)) < Ord(Head(t))
    ELSE StrLess(Tail(s), Tail(t))

\* sorted(): the keys of the set, smallest first
RECURSIVE Sorted(_)
Sorted(S) ==
    IF S = {} THEN <<>>
    ELSE LET least == CHOOSE x \in S : \A y \in S \ {x} : StrLess(x, y)
         IN  <<least>> \o Sorted(S \ {least})

\* calc_req_patches(all_files): v2p once the loops are done, and the version
\* lines in the order of "for version, patches in sorted(v2p.items())"
calc_req_patches(blob) ==
    LET m == IndexCategories(<<>>, blob)
    IN  [v2p |-> m, printed |-> Sorted(DOMAIN m)]

CalcReqPatches ==
    /\ pc = "patches"
    /\ LET r == calc_req_patches(all_files)
       IN  /\ v2p' = r.v2p
           /\ printed' = r.printed
    /\ pc' = "indexed"
    /\ UNCHANGED <<script, all_files, fs, dirs, run, exc, ci, files, fi,
                   category_path, out, calls, fs0, last, healedPrev,
                   healedCur, good, cuts>>

Next ==
    \/ EnterCategory
    \/ ProcessFile
    \/ EndCategory
    \/ Finish
    \/ StartRun

Spec == Init /\ [][Next]_vars

\* downloader.py alone
InitDownloader == Init /\ script = "downloader"
SpecDownloader == InitDownloader /\ [][Next]_vars

\* calc_req_patches, which main() does not call, on a catalog of its own
\* (the function is the same text in both scripts)
InitPatches ==
    /\ script = "downloader"
    /\ IsCatalog(all_files, PatchKeys, PatchEntries, MaxPatchFiles)
    /\ fs = <<>>
    /\ dirs = {}
    /\ run = 1
    /\ pc = "patches"
    /\ exc = "none"
    /\ ci = 1
    /\ files = <<>>
    /\ fi = 1
    /\ category_path = <<>>
    /\ out = {}
    /\ calls = <<>>
    /\ fs0 = fs
    /\ last = NoLast
    /\ healedPrev = {}
    /\ healedCur = {}
    /\ good = {}
    /\ cuts = {}
    /\ v2p = <<>>
    /\ printed = <<>>

NextPatches == CalcReqPatches

SpecPatches == InitPatches /\ [][NextPatches]_vars

(***************************** properties **********************************)
\* the entry at position f of category number c, after flattening
EntryAt(c, f) == Flatten(all_files[c].files)[f]
LastEntry == EntryAt(last.ci, last.fi)
LastId == [ci |-> last.ci, fi |-> last.fi, path |-> last.target]
LastCategory == all_files[last.ci].category

\* Sync-eligible as the specification defines it: no path separator in the
\* name, and the extension (what follows the last dot of a name that has a
\* dot) is neither zip nor bz2.
ClaimEligible(file_name) ==
    /\ \A i \in 1..Len(file_name) : file_name[i] # "/"
    /\ \A k \in 1..Len(file_name) :
         (file_name[k] = "." /\ \A j \in (k+1)..Len(file_name) : file_name[j] # ".")
           => SubSeq(file_name, k + 1, Len(file_name)) \notin {zip, bz2}

\* how often download_file was called for a target path in this run
CountCalls(path) == Cardinality({i \in 1..Len(calls) : calls[i].path = path})

\* the run is over: sync_everything returned or an exception left it
RunOver == pc \in {"done", "raised"}

\* C1: when the loop reaches an eligible entry whose target exists with
\* content whose md5 equals the entry's md5, download_file is not called for
\* the entry and the target keeps its content.
ThmC1_MatchingFileNotFetched ==
    (/\ last.kind = "file"
     /\ ClaimEligible(LastEntry.file_name)
     /\ "md5" \in DOMAIN LastEntry
     /\ last.pre # Absent
     /\ MD5(last.pre) = LastEntry.md5)
    => /\ ~last.fetched
       /\ ~last.changed
       /\ Content(fs, last.target) = last.pre
       /\ \A i \in 1..Len(calls) :
            ~(calls[i].ci = last.ci /\ calls[i].fi = last.fi)

WitC1_MatchingFileReached ==
    /\ last.kind = "file"
    /\ last.verify_called
    /\ last.verified
    /\ "md5" \in DOMAIN LastEntry
    /\ LastEntry.md5 = MD5(X)
    /\ last.pre = X

\* C2: a target path of an eligible entry of a recognized category that does
\* not exist when the run starts is fetched exactly once in the run: never
\* more than once, and once when the run is over.
CexC2_AbsentTargetFetchedExactlyOnce ==
    \A c \in 1..Len(all_files) :
      all_files[c].category \in CATEGORIES =>
        \A f \in 1..Len(Flatten(all_files[c].files)) :
          LET t == Target(CategoryPath(script, all_files[c].category),
                          EntryAt(c, f).file_name)
          IN  (ClaimEligible(EntryAt(c, f).file_name) /\ t \notin DOMAIN fs0)
              => /\ CountCalls(t) <= 1
                 /\ RunOver => CountCalls(t) = 1

\* C3: a fetch that fails, by a status other than 200 or by a response
\* without content-length, does not end the run: the loop goes on.
CexC3_FailedFetchDoesNotAbort ==
    (/\ last.kind = "file"
     /\ last.fetched
     /\ last.result \in {"False", "TypeError"})
    => pc # "raised"

\* C4: a call of download_file either writes the complete body to the
\* target or fails and leaves the target as it was before the call.
CexC4_FetchAllOrNothing ==
    (last.kind = "file" /\ last.fetched)
    => \/ /\ last.result = "None"
          /\ Content(fs, last.target) = last.body
       \/ /\ last.result # "None"
          /\ Content(fs, last.target) = last.pre

\* path is DOWNLOAD_PATH/<category of CATEGORIES>/<a name without separator>
DirectChild(path) ==
    \E c \in CATEGORIES :
      LET dir == DOWNLOAD_PATH \o <<"/">> \o c \o <<"/">>
      IN  /\ Len(path) > Len(dir)
          /\ SubSeq(path, 1, Len(dir)) = dir
          /\ \A i \in (Len(dir) + 1)..Len(path) : path[i] # "/"

\* C5: the run writes only direct children of DOWNLOAD_PATH/<category>, for
\* a category of CATEGORIES; an entry whose name has a path separator is
\* skipped with a diagnostic: no verify, no fetch, no write, no exception.
ThmC5_WritesStayInCategoryDir ==
    /\ \A p \in DOMAIN fs : Content(fs0, p) # fs[p] => DirectChild(p)
    /\ \A i \in 1..Len(calls) : DirectChild(calls[i].path)
    /\ (last.kind = "file" /\ \E i \in 1..Len(LastEntry.file_name) :
                                 LastEntry.file_name[i] = "/")
       => /\ ~last.verify_called
          /\ ~last.fetched
          /\ ~last.changed
          /\ pc # "raised"
          /\ Diag("deep path, skipping", LastEntry.file_name) \in out

WitC5_DeepEntrySkippedAndFileWritten ==
    /\ last.kind = "file"
    /\ LastEntry.file_name = s_a
    /\ Diag("deep path, skipping", s_a) \in out
    /\ \E p \in DOMAIN fs : Content(fs0, p) # fs[p]

\* C6: an entry of a recognized category is gone into (not skipped) exactly
\* when it is eligible: an eligible entry is not skipped, and an entry that
\* is not eligible reaches neither verify nor download_file.
CexC6_EligibleIffProcessed ==
    (last.kind = "file" /\ LastCategory \in CATEGORIES)
    => /\ ClaimEligible(LastEntry.file_name)
            => (last.verify_called \/ pc = "raised")
       /\ ~ClaimEligible(LastEntry.file_name)
            => (~last.verify_called /\ ~last.fetched)

\* C7: for an eligible entry whose md5 is empty or missing, verify is true
\* when the target exists, whatever it holds, and false when it does not;
\* with the target there, the entry is passed without a fetch and without
\* an exception.
CexC7_NoDigestMeansPresenceOnly ==
    (/\ last.kind = "file"
     /\ ClaimEligible(LastEntry.file_name)
     /\ ("md5" \notin DOMAIN LastEntry \/ LastEntry.md5 = ""))
    => /\ last.pre # Absent
            => (last.verify_called /\ last.verified /\ ~last.fetched
                /\ pc # "raised")
       /\ last.pre = Absent => (last.verify_called /\ ~last.verified)

\* C8, as stated: a top-level key outside CATEGORIES is skipped with a
\* diagnostic: no directory, no verify, no fetch, no exception.
CexC8_UnknownKeySkipped ==
    (last.kind \in {"enter", "skip", "assert"} /\ LastCategory \notin CATEGORIES)
    => /\ last.kind = "skip"
       /\ pc # "raised"
       /\ Diag("unknown category, skipping", LastCategory) \in out
       /\ CategoryPath(script, LastCategory) \notin dirs

\* C8, amended: downloader.py skips a top-level key outside CATEGORIES with
\* a diagnostic (no directory, no verify, no fetch, no exception) and goes on
\* to the next key; sync.py goes into the key other as into a category and
\* ends the run with an AssertionError on any other key outside CATEGORIES.
ThmC8_UnknownKeyPerScript ==
    /\ (last.kind \in {"enter", "skip", "assert"} /\ LastCategory \notin CATEGORIES)
       => IF script = "downloader"
          THEN /\ last.kind = "skip"
               /\ pc = "category"
               /\ ci = last.ci + 1
               /\ exc = "none"
               /\ Diag("unknown category, skipping", LastCategory) \in out
               /\ CategoryPath(script, LastCategory) \notin dirs
          ELSE IF LastCategory = other
          THEN /\ last.kind = "enter"
               /\ pc = "file"
               /\ CategoryPath(script, LastCategory) \in dirs
          ELSE /\ last.kind = "assert"
               /\ pc = "raised"
               /\ exc = "AssertionError"
    /\ script = "downloader"
       => /\ last.kind = "file" => LastCategory \in CATEGORIES
          /\ \A i \in 1..Len(calls) :
               all_files[calls[i].ci].category \in CATEGORIES

WitC8_SkippedThenSynced ==
    /\ script = "downloader"
    /\ Len(all_files) = 2
    /\ all_files[1].category = legacy
    /\ Diag("unknown category, skipping", legacy) \in out
    /\ last.kind = "file"
    /\ last.ci = 2
    /\ last.result = "None"

ListedFor(field, v, f) ==
    \E c \in 1..Len(all_files) :
      LET cat == all_files[c].category
          n == Len(cat)
      IN  /\ n >= 6
          /\ <<cat[n-5], cat[n-4], cat[n-3], cat[n-2], cat[n-1], cat[n]>>
               = <<"-","p","a","t","c","h">>
          /\ \E i \in 1..Len(Flatten(all_files[c].files)) :
               LET e == EntryAt(c, i)
               IN  /\ e.file_name = f
                   /\ field \in DOMAIN e
                   /\ \E j \in 1..Len(e[field]) : e[field][j] = v

InIndex(key, f) == key \in DOMAIN v2p /\ f \in v2p[key]

\* s comes before t: s is a proper prefix of t, or at the first position
\* where they differ s has the smaller character
Precedes(s, t) ==
    \E i \in 1..Len(t) :
      /\ \A j \in 1..(i-1) : j <= Len(s) /\ s[j] = t[j]
      /\ (i > Len(s) \/ (i <= Len(s) /\ Ord(s[i]) < Ord(t[i])))

\* C10: f is in the set under "EE "+v (under "CE "+v) exactly when an entry
\* of a category whose name ends in -patch has file_name f and v among its
\* ee_versions (ce_versions), a missing list counting as empty; there are no
\* other keys; and the keys are printed in ascending order of the strings.
ThmC10_PatchIndex ==
    pc = "indexed" =>
      /\ \A v \in PatchVersions, f \in PatchNames :
           /\ InIndex(<<"E","E"," ">> \o v, f) <=> ListedFor("ee_versions", v, f)
           /\ InIndex(<<"C","E"," ">> \o v, f) <=> ListedFor("ce_versions", v, f)
      /\ \A k \in DOMAIN v2p :
           /\ v2p[k] # {}
           /\ v2p[k] \subseteq PatchNames
           /\ \E v \in PatchVersions :
                k = <<"E","E"," ">> \o v \/ k = <<"C","E"," ">> \o v
      /\ {printed[i] : i \in 1..Len(printed)} = DOMAIN v2p
      /\ \A i, j \in 1..Len(printed) : i < j => Precedes(printed[i], printed[j])

WitC10_TwoEditionsIndexed ==
    /\ pc = "indexed"
    /\ Len(printed) = 3
    /\ printed[1] = <<"C","E"," ">> \o v19
    /\ printed[2] = <<"E","E"," ">> \o v114
    /\ printed[3] = <<"E","E"," ">> \o v19
    /\ v2p[<<"E","E"," ">> \o v114] = {p1, p2}
    /\ v2p[<<"C","E"," ">> \o v19] = {p2}

====
